---- MODULE Spec2Model ----
(***************************************************************************)
(* DynamicProperties: a collection of typed property declarations          *)
(* (PropertyCollection) and a registrar (DynamicProperties) that           *)
(* synthesizes a PropertyGroup class and a Panel class from it and         *)
(* installs them in the host (bpy.utils.register_class), tracking every    *)
(* registered registrar in the class-level dict registered_properties.     *)
(*                                                                         *)
(* Python values are written as strings of their literals ("True", "0.0",  *)
(* "{'HIDDEN'}"), so that a dict of keyword arguments is a TLA+ function   *)
(* from option names to strings.  A Python dict is a sequence of           *)
(* [key, val] entries with distinct keys, in insertion order.              *)
(*                                                                         *)
(* The host is the set of classes it currently has installed:              *)
(* register_class installs a class, unregister_class removes an installed  *)
(* class and raises for anything else (None, an unset attribute, a class   *)
(* that is not installed).                                                 *)
(*                                                                         *)
(* Four specifications: Spec (several registrars, the host never failing), *)
(* SpecHostRaises (the same with register_class raising), SpecColl (one    *)
(* collection under every collection method) and SpecPanel (one registrar  *)
(* with its panel polled and drawn and its record listed by the host).     *)
(***************************************************************************)
EXTENDS Integers, Sequences, FiniteSets, TLC

(***************************************************************************)
(* Bounds of the model.                                                    *)
(***************************************************************************)
\* how many registrars of RegistrarPool are constructed in one run
MaxConstructed == 2

\* how many installed classes no handle refers to the host may hold when a
\* register_class call of register() raises
MaxOrphans == 1

\* the keys the collection methods are called with
Keys == {"enabled", "f"}

(***************************************************************************)
(* Python dicts, in insertion order.                                       *)
(***************************************************************************)
EmptyDict == <<>>

DictKeys(d) == {d[i].key : i \in 1..Len(d)}

DictIndex(d, k) == CHOOSE i \in 1..Len(d) : d[i].key = k

DictGet(d, k) == d[DictIndex(d, k)].val

\* DictSet gone wrong: the entry is added even when the key is there
DictSetAppends(d, k, v) == Append(d, [key |-> k, val |-> v])

\* d[k] = v: an existing key keeps its position, a new key goes last
DictSet(d, k, v) ==
    IF k \in DictKeys(d)
    THEN [d EXCEPT ![DictIndex(d, k)] = [key |-> k, val |-> v]]
    ELSE Append(d, [key |-> k, val |-> v])

DictDelIsKept(e, k) == e.key # k

\* del d[k]
DictDel(d, k) == SelectSeq(d, LAMBDA e : DictDelIsKept(e, k))

\* no keyword arguments
NoKwargs == [o \in {} |-> ""]

\* the merge gone wrong: the left operand wins on a shared option name
MergeLeftWins(kwargs, args) ==
    [o \in (DOMAIN kwargs) \cup (DOMAIN args) |->
        IF o \in DOMAIN kwargs THEN kwargs[o] ELSE args[o]]

\* {**kwargs, **args}: the right operand wins on a shared option name
Merge(kwargs, args) ==
    [o \in (DOMAIN kwargs) \cup (DOMAIN args) |->
        IF o \in DOMAIN args THEN args[o] ELSE kwargs[o]]

\* kwargs.get('description', '')
GetDescription(kwargs) ==
    IF "description" \in DOMAIN kwargs THEN kwargs["description"] ELSE ""

\* a bpy.props constructor call: the property function and its arguments
Prop(ctor, args) == [ctor |-> ctor, args |-> args]

\* self.props[key] = ...; self.meta[key] = (kind, name, description)
Declare(c, key, prop, kind, name, description) ==
    [props |-> DictSet(c.props, key, prop),
     meta  |-> DictSet(c.meta, key, <<kind, name, description>>)]

(***************************************************************************)
(* PropertyCollection: the operations as functions of the collection       *)
(* c = [props |-> dict, meta |-> dict].                                    *)
(***************************************************************************)
add_header(c, key, text) ==
    [props |-> c.props,
     meta  |-> DictSet(c.meta, key, <<"header", text, "">>)]

add_float(c, key, name, kwargs) ==
    Declare(c, key, Prop("FloatProperty", Merge(kwargs, [name |-> name])),
            "float", name, GetDescription(kwargs))

add_bool(c, key, name, kwargs) ==
    Declare(c, key, Prop("BoolProperty", Merge(kwargs, [name |-> name])),
            "bool", name, GetDescription(kwargs))

add_str(c, key, name, kwargs) ==
    Declare(c, key, Prop("StringProperty", Merge(kwargs, [name |-> name])),
            "str", name, GetDescription(kwargs))

add_vec2(c, key, name, kwargs) ==
    Declare(c, key,
            Prop("FloatVectorProperty",
                 Merge(kwargs, [size |-> "2", name |-> name])),
            "vec2", name, GetDescription(kwargs))

add_vec3(c, key, name, kwargs) ==
    Declare(c, key,
            Prop("FloatVectorProperty",
                 Merge(kwargs, [size |-> "3", name |-> name])),
            "vec3", name, GetDescription(kwargs))

add_rgb(c, key, name, kwargs) ==
    Declare(c, key,
            Prop("FloatVectorProperty",
                 Merge(kwargs, [size |-> "3", name |-> name,
                                subtype |-> "COLOR",
                                min |-> "0.0", max |-> "1.0"])),
            "rgb", name, GetDescription(kwargs))

add_rgba(c, key, name, kwargs) ==
    Declare(c, key,
            Prop("FloatVectorProperty",
                 Merge(kwargs, [size |-> "4", name |-> name,
                                subtype |-> "COLOR",
                                min |-> "0.0", max |-> "1.0"])),
            "rgba", name, GetDescription(kwargs))

add_enum(c, key, name, kwargs) ==
    Declare(c, key, Prop("EnumProperty", Merge(kwargs, [name |-> name])),
            "enum", name, GetDescription(kwargs))

\* add_file() gone wrong: the caller's options win over the fixed ones
add_fileCallerWins(c, key, name, kwargs) ==
    Declare(c, key,
            Prop("StringProperty",
                 Merge([name |-> name, subtype |-> "FILE_PATH"], kwargs)),
            "file", name, GetDescription(kwargs))

add_file(c, key, name, kwargs) ==
    Declare(c, key,
            Prop("StringProperty",
                 Merge(kwargs, [name |-> name, subtype |-> "FILE_PATH"])),
            "file", name, GetDescription(kwargs))

add_dir(c, key, name, kwargs) ==
    Declare(c, key,
            Prop("StringProperty",
                 Merge(kwargs, [name |-> name, subtype |-> "DIR_PATH"])),
            "dir", name, GetDescription(kwargs))

add_image(c, key, name, description) ==
    Declare(c, key,
            Prop("PointerProperty",
                 [name |-> name, description |-> description,
                  type |-> "bpy.types.Image"]),
            "image", name, description)

\* remove() gone wrong: the constructor of the key is left behind
removeDescriptorOnly(c, key) ==
    [props |-> c.props,
     meta  |-> IF key \in DictKeys(c.meta)
               THEN DictDel(c.meta, key) ELSE c.meta]

remove(c, key) ==
    [props |-> IF key \in DictKeys(c.props)
               THEN DictDel(c.props, key) ELSE c.props,
     meta  |-> IF key \in DictKeys(c.meta)
               THEN DictDel(c.meta, key) ELSE c.meta]

\* the default of the parameter `enabled` of clear() and of __init__()
EnabledDefault == "True"

\* clear() gone wrong: the argument is dropped
clearDropsArgument(enabled) ==
    add_bool([props |-> EmptyDict, meta |-> EmptyDict], "enabled", "enabled",
             [default |-> EnabledDefault, options |-> "{'HIDDEN'}"])

clear(enabled) ==
    add_bool([props |-> EmptyDict, meta |-> EmptyDict], "enabled", "enabled",
             [default |-> enabled, options |-> "{'HIDDEN'}"])

\* PropertyCollection.__init__(enabled)
NewCollection(enabled) == clear(enabled)

(***************************************************************************)
(* DynamicProperties: the registrars.                                      *)
(***************************************************************************)
\* The arguments the registrars are constructed with (__init__'s bpy_type,
\* name, title, panel_parent_id); a registrar is its index in the pool.
\* Registrars 1 and 3 are two instances built with the same type and name;
\* registrars 2 and 4 have different types and names whose concatenations
\* read the same.
RegistrarPool ==
    << [bpy_type |-> "Light", name |-> "g", title |-> "G Settings",
        panel_parent_id |-> ""],
       [bpy_type |-> "Light", name |-> "Probeg", title |-> "Probe G Settings",
        panel_parent_id |-> ""],
       [bpy_type |-> "Light", name |-> "g", title |-> "Other G",
        panel_parent_id |-> "DEMO_PT_Toggle_DynamicPropertyGroups"],
       [bpy_type |-> "LightProbe", name |-> "g", title |-> "Probe",
        panel_parent_id |-> ""] >>

Registrars == 1..Len(RegistrarPool)

\* the value None, as a handle and as the result of find()
None == 0
\* an instance attribute that was never assigned (reading it raises
\* AttributeError): __init__ sets neither property_class nor panel_class
Unset == -1

VARIABLES
    constructed,            \* the registrars __init__ has run for
    props,                  \* props[r]: self.props of registrar r
    meta,                   \* meta[r]: self.meta of registrar r
    property_class,         \* property_class[r]: Unset, None or a class id
    panel_class,            \* panel_class[r]: Unset, None or a class id
    registered_properties,  \* the class-level dict: key -> registrar
    host_property_groups,   \* the PropertyGroup classes installed in the host
    host_panels,            \* the Panel classes installed in the host
    registered,             \* history: the registrars whose last register()
                            \* or unregister() was a register() that returned
    last,                   \* the last call: what it was and how it ended
    hist,                   \* history of the collection calls, kept when
                            \* hist.on: whether the collection had the key
                            \* of the last call before it, and the call
                            \* before that one
    context,                \* the host's context: whether it has an object
                            \* of the target type, and the field values
                            \* stored on that object
    shown,                  \* what poll(), draw() or items() gave, when
                            \* that was the last step
    inserted                \* history, kept when inserted.on: the keys of
                            \* the collection of registrar 1 in the order
                            \* they were first inserted since its dicts
                            \* were created

vars == <<constructed, props, meta, property_class, panel_class,
          registered_properties, host_property_groups, host_panels,
          registered, last, hist, context, shown, inserted>>

\* get_key gone wrong: the group name is left out of the key
get_keyOfType(bpy_type, name) == bpy_type

get_key(bpy_type, name) == bpy_type \o name

\* the collection of registrar r
Coll(r) == [props |-> props[r], meta |-> meta[r]]

\* the registration state the registrar methods read and write
Sys ==
    [property_class        |-> property_class,
     panel_class           |-> panel_class,
     registered_properties |-> registered_properties,
     host_property_groups  |-> host_property_groups,
     host_panels           |-> host_panels]

ClassIds(classes) == {cl.id : cl \in classes}

\* the identity of a class object created by registrar r: one no live object
\* has (the identities of the classes of r are r plus the multiples of the
\* number of registrars)
FreshId(used, r) ==
    CHOOSE n \in {i * Len(RegistrarPool) + r : i \in 0..Cardinality(used)} :
        n \notin used

LiveIds(S) ==
    ClassIds(S.host_property_groups) \cup ClassIds(S.host_panels)
        \cup {S.property_class[r] : r \in Registrars}
        \cup {S.panel_class[r] : r \in Registrars}

\* a call of the host: the function, which of the registrar's two classes it
\* was given, and whether it returned (TRUE) or raised (FALSE)
HostCall(fn, what, ok) == [fn |-> fn, what |-> what, ok |-> ok]

\* unregister_class gone wrong: the class stays installed
HostUnregisterKeeps(classes, id) == classes

\* bpy.utils.unregister_class(cls) on the installed set `classes`:
\* removes cls; raises when cls is not an installed class
HostUnregister(classes, id) == {cl \in classes : cl.id # id}

\* bpy.utils.register_class(cls)
HostRegister(classes, cl) == classes \cup {cl}

\* try: bpy.utils.unregister_class(handle) except: pass
\* reading an unset attribute raises before the host is called
UnregisterCalls(classes, handle, what) ==
    IF handle = Unset THEN <<>>
    ELSE <<HostCall("unregister_class", what, handle \in ClassIds(classes))>>

\* the del gone wrong: the entry stays
TableDelKeeps(table, key) == table

\* try: del self.registered_properties[key] except: pass
TableDel(table, key) ==
    IF key \in DOMAIN table
    THEN [k \in (DOMAIN table) \ {key} |-> table[k]]
    ELSE table

\* self.registered_properties[key] = self
TableSet(table, key, r) ==
    [k \in (DOMAIN table) \cup {key} |-> IF k = key THEN r ELSE table[k]]

\* unregister() gone wrong: the panel class is not unregistered
unregisterLeavesPanel(S, r) ==
    [property_class        |-> [S.property_class EXCEPT ![r] = None],
     panel_class           |-> [S.panel_class EXCEPT ![r] = None],
     registered_properties |->
         TableDel(S.registered_properties,
                  get_key(RegistrarPool[r].bpy_type, RegistrarPool[r].name)),
     host_property_groups  |->
         HostUnregister(S.host_property_groups, S.property_class[r]),
     host_panels           |-> S.host_panels,
     exc                   |-> "",
     calls                 |->
         UnregisterCalls(S.host_property_groups, S.property_class[r],
                         "property_class")]

unregister(S, r) ==
    [property_class        |-> [S.property_class EXCEPT ![r] = None],
     panel_class           |-> [S.panel_class EXCEPT ![r] = None],
     registered_properties |->
         TableDel(S.registered_properties,
                  get_key(RegistrarPool[r].bpy_type, RegistrarPool[r].name)),
     host_property_groups  |->
         HostUnregister(S.host_property_groups, S.property_class[r]),
     host_panels           |->
         HostUnregister(S.host_panels, S.panel_class[r]),
     exc                   |-> "",
     calls                 |->
         UnregisterCalls(S.host_property_groups, S.property_class[r],
                         "property_class")
             \o UnregisterCalls(S.host_panels, S.panel_class[r],
                                "panel_class")]

\* the target types register() knows a panel placement for
RecognizedTypes == {"Light", "Material", "Object", "RenderEngine"}

\* the if/elif chain of register(): bl_context and context_attr per type
PanelContext(type_name) ==
    CASE type_name = "Light" ->
             [bl_context |-> "data", context_attr |-> "light"]
      [] type_name = "Material" ->
             [bl_context |-> "material", context_attr |-> "material"]
      [] type_name = "Object" ->
             [bl_context |-> "object", context_attr |-> "object"]
      [] type_name = "RenderEngine" ->
             [bl_context |-> "render", context_attr |-> "engine"]

\* type(key + 'PropertyGroup', (base_property_group,), ...) and its attributes.
\* annotations are the fields the host defines for the class when it is
\* registered; meta is the content of the dict the attribute `meta` refers
\* to, and meta_is_self tells whether that dict is the registrar's self.meta
\* (property_class.meta = self.meta binds the same object)
PropertyClass(id, r, c) ==
    [id          |-> id,
     made_by     |-> r,
     class_name  |-> get_key(RegistrarPool[r].bpy_type, RegistrarPool[r].name)
                         \o "PropertyGroup",
     bpy_type    |-> RegistrarPool[r].bpy_type,
     name        |-> RegistrarPool[r].name,
     title       |-> RegistrarPool[r].title,
     annotations |-> c.props,
     meta        |-> c.meta,
     meta_is_self |-> TRUE]

\* type('DYNAMIC_PT_' + key, (base_panel,), {}) and its attributes
PanelClass(id, r) ==
    [id           |-> id,
     made_by      |-> r,
     class_name   |-> "DYNAMIC_PT_"
                          \o get_key(RegistrarPool[r].bpy_type,
                                     RegistrarPool[r].name),
     bpy_type     |-> RegistrarPool[r].bpy_type,
     name         |-> RegistrarPool[r].name,
     title        |-> RegistrarPool[r].title,
     bl_label     |-> RegistrarPool[r].title,
     bl_parent_id |-> RegistrarPool[r].panel_parent_id,
     bl_context   |-> PanelContext(RegistrarPool[r].bpy_type).bl_context,
     context_attr |-> PanelContext(RegistrarPool[r].bpy_type).context_attr]

\* register() past the type check: unregister, install, record
Install(S, r, c) ==
    LET U   == unregister(S, r)
        pid == FreshId(LiveIds(S), r)
        qid == FreshId(LiveIds(S) \cup {pid}, r)
    IN  [property_class        |-> [U.property_class EXCEPT ![r] = pid],
         panel_class           |-> [U.panel_class EXCEPT ![r] = qid],
         registered_properties |->
             TableSet(U.registered_properties,
                      get_key(RegistrarPool[r].bpy_type,
                              RegistrarPool[r].name), r),
         host_property_groups  |->
             HostRegister(U.host_property_groups, PropertyClass(pid, r, c)),
         host_panels           |->
             HostRegister(U.host_panels, PanelClass(qid, r)),
         exc                   |-> "",
         calls                 |->
             U.calls \o <<HostCall("register_class", "property_class", TRUE),
                          HostCall("register_class", "panel_class", TRUE)>>]

\* the state a call that raised before changing anything leaves
Raise(S, exc) ==
    [property_class        |-> S.property_class,
     panel_class           |-> S.panel_class,
     registered_properties |-> S.registered_properties,
     host_property_groups  |-> S.host_property_groups,
     host_panels           |-> S.host_panels,
     exc                   |-> exc,
     calls                 |-> <<>>]

\* register() gone wrong: the previous installation is unregistered before
\* the target type is checked
registerUnregistersFirst(S, r, c) ==
    IF RegistrarPool[r].bpy_type \in RecognizedTypes
    THEN Install(S, r, c)
    ELSE [unregister(S, r) EXCEPT !.exc = "TypeError"]

register(S, r, c) ==
    IF RegistrarPool[r].bpy_type \in RecognizedTypes
    THEN Install(S, r, c)
    ELSE Raise(S, "TypeError")

\* register() when the host's register_class raises for the class `what`
\* ("property_class" or "panel_class"): the exception leaves register()
\* after unregister() and the host calls that returned
registerHostRaises(S, r, c, what) ==
    IF RegistrarPool[r].bpy_type \notin RecognizedTypes
    THEN Raise(S, "TypeError")
    ELSE LET U   == unregister(S, r)
             pid == FreshId(LiveIds(S), r)
         IN  IF what = "property_class"
             THEN [U EXCEPT
                     !.exc = "RuntimeError",
                     !.calls = U.calls
                         \o <<HostCall("register_class", "property_class",
                                       FALSE)>>]
             ELSE [U EXCEPT
                     !.host_property_groups =
                         HostRegister(@, PropertyClass(pid, r, c)),
                     !.exc = "RuntimeError",
                     !.calls = U.calls
                         \o <<HostCall("register_class", "property_class",
                                       TRUE),
                              HostCall("register_class", "panel_class",
                                       FALSE)>>]

\* the installed classes no handle of a registrar refers to
Orphans(S) ==
    {cl \in S.host_property_groups :
        \A r \in Registrars : S.property_class[r] # cl.id}
    \cup {cl \in S.host_panels :
             \A r \in Registrars : S.panel_class[r] # cl.id}

\* the states register() goes through past the type check, one per
\* statement: the two host calls and the del of unregister(), its two
\* assignments of None, the two host calls of register(), its two
\* assignments of the handles and its assignment of the table entry
RegisterSteps(S, r, c) ==
    LET key == get_key(RegistrarPool[r].bpy_type, RegistrarPool[r].name)
        pid == FreshId(LiveIds(S), r)
        qid == FreshId(LiveIds(S) \cup {pid}, r)
        S1  == [S EXCEPT !.host_property_groups =
                             HostUnregister(@, S.property_class[r])]
        S2  == [S1 EXCEPT !.host_panels =
                              HostUnregister(@, S.panel_class[r])]
        S3  == [S2 EXCEPT !.registered_properties = TableDel(@, key)]
        S4  == [S3 EXCEPT !.property_class[r] = None,
                          !.panel_class[r] = None]
        S5  == [S4 EXCEPT !.host_property_groups =
                              HostRegister(@, PropertyClass(pid, r, c))]
        S6  == [S5 EXCEPT !.host_panels =
                              HostRegister(@, PanelClass(qid, r))]
        S7  == [S6 EXCEPT !.property_class[r] = pid,
                          !.panel_class[r] = qid]
        S8  == [S7 EXCEPT !.registered_properties = TableSet(@, key, r)]
    IN  <<S, S1, S2, S3, S4, S5, S6, S7, S8>>

\* registered_properties.get(key)
find(table, bpy_type, name) ==
    IF get_key(bpy_type, name) \in DOMAIN table
    THEN table[get_key(bpy_type, name)]
    ELSE None

(***************************************************************************)
(* The synthesized classes at work: poll() and draw() of the panel and     *)
(* items() of the record, as functions of the context and of the record    *)
(* class cl the group name is bound to on the target type.                 *)
(***************************************************************************)
\* no object of the target type in the context, no value stored
NoContext == [present |-> FALSE, values |-> NoKwargs]

\* nothing polled, drawn or listed yet
Shown(op, exc, ret, rows) ==
    [op |-> op, exc |-> exc, ret |-> ret, rows |-> rows]

NothingShown == Shown("", "", "", <<>>)

InsertedOff == [on |-> FALSE, keys |-> <<>>]

\* the value of a property nobody assigned: the `default` the constructor
\* was given, else the default of the property function
DefaultOf(prop) ==
    IF "default" \in DOMAIN prop.args THEN prop.args.default
    ELSE CASE prop.ctor = "BoolProperty"   -> "False"
           [] prop.ctor = "FloatProperty"  -> "0.0"
           [] prop.ctor = "StringProperty" -> "''"
           [] prop.ctor = "PointerProperty" -> "None"
           [] OTHER -> "default"

\* bool(value)
Truthy(value) == value \notin {"False", "0.0", "''", "None"}

\* the record instance has the attribute `key`: a field the class was
\* registered with
HasField(cl, key) == key \in DictKeys(cl.annotations)

\* getattr(props, key) of a field
FieldValue(cl, values, key) ==
    IF key \in DOMAIN values THEN values[key]
    ELSE DefaultOf(DictGet(cl.annotations, key))

\* BaseDynamicPanel.poll(cls, context); ctx.present tells whether
\* getattr(context, cls.context_attr) is an object
poll(ctx, cl) ==
    IF ~ctx.present THEN Shown("poll", "", "False", <<>>)
    ELSE IF ~HasField(cl, "enabled")
         THEN Shown("poll", "AttributeError", "", <<>>)
    ELSE IF ~Truthy(FieldValue(cl, ctx.values, "enabled"))
         THEN Shown("poll", "", "False", <<>>)
    ELSE Shown("poll", "", "True", <<>>)

\* a call of the layout: the function, the property key and the text
UICall(fn, key, text, new, open) ==
    [fn |-> fn, key |-> key, text |-> text, new |-> new, open |-> open]

\* the loop body of draw() gone wrong: "enabled" is drawn too
DrawEntryAll(e) ==
    IF e.val[1] = "header"
    THEN <<UICall("separator", "", "", "", ""),
           UICall("box", "", "", "", ""),
           UICall("label", "", e.val[2], "", "")>>
    ELSE IF e.val[1] = "image"
    THEN <<UICall("separator", "", "", "", ""),
           UICall("template_ID", e.key, e.val[2], "image.new", "image.open")>>
    ELSE <<UICall("prop", e.key, "", "", "")>>

\* the loop body of draw(), for the entry e of props.meta
DrawEntry(e) ==
    IF e.key = "enabled" THEN <<>>
    ELSE IF e.val[1] = "header"
    THEN <<UICall("separator", "", "", "", ""),
           UICall("box", "", "", "", ""),
           UICall("label", "", e.val[2], "", "")>>
    ELSE IF e.val[1] = "image"
    THEN <<UICall("separator", "", "", "", ""),
           UICall("template_ID", e.key, e.val[2], "image.new", "image.open")>>
    ELSE <<UICall("prop", e.key, "", "", "")>>

\* for key, meta in props.meta.items(): ...
RECURSIVE DrawEntries(_)
DrawEntries(m) ==
    IF m = <<>> THEN <<>> ELSE DrawEntry(Head(m)) \o DrawEntries(Tail(m))

\* BaseDynamicPanel.draw(self, context): the calls of the layout column
draw(ctx, cl) ==
    IF ~ctx.present THEN Shown("draw", "AttributeError", "", <<>>)
    ELSE Shown("draw", "", "", DrawEntries(cl.meta))

\* if key != 'enabled' and meta[0] != 'header'
ItemsTakes(e) == e.key # "enabled" /\ e.val[1] # "header"

\* BaseDynamicPropertyGroup.items(self): getattr(self, key) raises for a
\* key that is no field of the record
items(cl, values) ==
    LET taken == SelectSeq(cl.meta, ItemsTakes)
    IN  IF \E i \in 1..Len(taken) : ~HasField(cl, taken[i].key)
        THEN Shown("items", "AttributeError", "", <<>>)
        ELSE Shown("items", "", "",
                   [i \in 1..Len(taken) |->
                       [key |-> taken[i].key,
                        val |-> <<taken[i].val[1],
                                  FieldValue(cl, values, taken[i].key)>>]])

(***************************************************************************)
(* The calls, as actions.  `last` records the call just made: the method,  *)
(* the registrar, its key and distinguishing argument, the exception it    *)
(* raised ("" for none), the host calls it made and what it returned.      *)
(***************************************************************************)
Call(op, r, key, arg, exc, calls, ret) ==
    [op |-> op, reg |-> r, key |-> key, arg |-> arg, exc |-> exc,
     calls |-> calls, ret |-> ret]

\* the arguments the collection methods are called with
Names == {"Foo"}
HeaderTexts == {"More"}
PyBool == {"True", "False"}
PlainKwargs == <<NoKwargs>>
FloatKwargs == <<NoKwargs, [description |-> "Test float", default |-> "1.0"]>>
BoolKwargs == <<NoKwargs>>
SizeKwargs == <<NoKwargs, [description |-> "Test Vec2", size |-> "4"]>>
ColorKwargs ==
    <<NoKwargs,
      [description |-> "Diffuse color", min |-> "-1.0", max |-> "2.0",
       subtype |-> "NONE"],
      [size |-> "2"]>>
EnumKwargs == <<[items |-> "[('foo', 'Foo', ''), ('bar', 'Bar', '')]"]>>
PathKwargs ==
    <<NoKwargs, [description |-> "Some file to load", subtype |-> "NONE"]>>
ImageDescriptions == {"Image file"}

SeqRange(s) == {s[i] : i \in 1..Len(s)}

CollectionOps ==
    {"add_header", "add_float", "add_bool", "add_str", "add_vec2", "add_vec3",
     "add_rgb", "add_rgba", "add_enum", "add_file", "add_dir", "add_image",
     "remove", "clear"}

\* the history of the collection calls: `had` tells whether the collection
\* had the key of the last call when it was called ("True", "False", or ""
\* for a call without a key); prev_op, prev_key and prev_had describe the
\* collection call before the last one, and are kept when the last call is
\* a clear() or a remove() of the key of that call
History(on, had, prev_op, prev_key, prev_had) ==
    [on |-> on, had |-> had, prev_op |-> prev_op, prev_key |-> prev_key,
     prev_had |-> prev_had]

HistoryOff == History(FALSE, "", "", "", "")

HistoryOn == History(TRUE, "", "", "", "")

Had(r, key) ==
    IF key = "" THEN ""
    ELSE IF key \in DictKeys(meta[r]) THEN "True" ELSE "False"

\* the history after the collection method `op` of r called with `key`
Record(r, op, key) ==
    IF ~hist.on THEN hist
    ELSE IF /\ last.reg = r
            /\ last.op \in CollectionOps
            /\ (op = "clear" \/ (op = "remove" /\ last.key = key))
         THEN History(TRUE, Had(r, key), last.op, last.key, hist.had)
         ELSE History(TRUE, Had(r, key), "", "", "")

\* the history of first insertions after the collection method `op` of r
\* called with `key`
FirstInserted(r, op, key) ==
    IF ~inserted.on \/ r # 1 THEN inserted
    ELSE IF op = "clear" THEN [on |-> TRUE, keys |-> <<"enabled">>]
    ELSE IF op # "remove" /\ key \notin SeqRange(inserted.keys)
         THEN [on |-> TRUE, keys |-> Append(inserted.keys, key)]
         ELSE inserted

\* the classes after the collection method `op` of r returned with the
\* collection c: the add methods and remove() change self.meta in place,
\* so that a class whose meta is that dict has the change; clear() binds
\* self.meta to a new dict, and the class keeps the old one
SeenByClasses(classes, r, c, op) ==
    {IF cl.made_by = r /\ cl.meta_is_self
     THEN IF op = "clear"
          THEN [cl EXCEPT !.meta_is_self = FALSE]
          ELSE [cl EXCEPT !.meta = c.meta]
     ELSE cl : cl \in classes}

\* a collection method of registrar r returned with the collection c
SetColl(r, c, op, key, arg) ==
    /\ r \in constructed
    /\ props' = [props EXCEPT ![r] = c.props]
    /\ meta' = [meta EXCEPT ![r] = c.meta]
    /\ host_property_groups' = SeenByClasses(host_property_groups, r, c, op)
    /\ last' = Call(op, r, key, arg, "", <<>>, None)
    /\ hist' = Record(r, op, key)
    /\ inserted' = FirstInserted(r, op, key)
    /\ shown' = NothingShown
    /\ UNCHANGED <<constructed, property_class, panel_class,
                   registered_properties, host_panels, registered, context>>

AddHeader(r, key, text) ==
    SetColl(r, add_header(Coll(r), key, text), "add_header", key, text)

AddFloat(r, key, name, kwargs) ==
    SetColl(r, add_float(Coll(r), key, name, kwargs), "add_float", key, name)

AddBool(r, key, name, kwargs) ==
    SetColl(r, add_bool(Coll(r), key, name, kwargs), "add_bool", key, name)

AddStr(r, key, name, kwargs) ==
    SetColl(r, add_str(Coll(r), key, name, kwargs), "add_str", key, name)

AddVec2(r, key, name, kwargs) ==
    SetColl(r, add_vec2(Coll(r), key, name, kwargs), "add_vec2", key, name)

AddVec3(r, key, name, kwargs) ==
    SetColl(r, add_vec3(Coll(r), key, name, kwargs), "add_vec3", key, name)

AddRgb(r, key, name, kwargs) ==
    SetColl(r, add_rgb(Coll(r), key, name, kwargs), "add_rgb", key, name)

AddRgba(r, key, name, kwargs) ==
    SetColl(r, add_rgba(Coll(r), key, name, kwargs), "add_rgba", key, name)

AddEnum(r, key, name, kwargs) ==
    SetColl(r, add_enum(Coll(r), key, name, kwargs), "add_enum", key, name)

AddFile(r, key, name, kwargs) ==
    SetColl(r, add_file(Coll(r), key, name, kwargs), "add_file", key, name)

AddDir(r, key, name, kwargs) ==
    SetColl(r, add_dir(Coll(r), key, name, kwargs), "add_dir", key, name)

AddImage(r, key, name, description) ==
    SetColl(r, add_image(Coll(r), key, name, description),
            "add_image", key, name)

Remove(r, key) ==
    SetColl(r, remove(Coll(r), key), "remove", key, "")

\* clear(enabled)
Clear(r, enabled) ==
    SetColl(r, clear(enabled), "clear", "", enabled)

\* clear(): the parameter takes its default
ClearDefault(r) ==
    SetColl(r, clear(EnabledDefault), "clear", "", "")

\* DynamicProperties(bpy_type, name, title, enabled, panel_parent_id)
Construct(r, enabled) ==
    /\ r \notin constructed
    /\ Cardinality(constructed) < MaxConstructed
    /\ constructed' = constructed \cup {r}
    /\ props' = [props EXCEPT ![r] = NewCollection(enabled).props]
    /\ meta' = [meta EXCEPT ![r] = NewCollection(enabled).meta]
    /\ last' = Call("__init__", r, "", enabled, "", <<>>, None)
    /\ shown' = NothingShown
    /\ UNCHANGED <<hist, property_class, panel_class, registered_properties,
                   host_property_groups, host_panels, registered,
                   context, inserted>>

\* a registrar method returned with the registration state T
SetSys(r, T, op) ==
    /\ r \in constructed
    /\ property_class' = T.property_class
    /\ panel_class' = T.panel_class
    /\ registered_properties' = T.registered_properties
    /\ host_property_groups' = T.host_property_groups
    /\ host_panels' = T.host_panels
    /\ last' = Call(op, r, "", "", T.exc, T.calls, None)
    /\ shown' = NothingShown
    /\ UNCHANGED <<constructed, props, meta, hist, context, inserted>>

Register(r) ==
    /\ SetSys(r, register(Sys, r, Coll(r)), "register")
    /\ registered' = IF register(Sys, r, Coll(r)).exc = ""
                     THEN registered \cup {r}
                     ELSE registered

\* register() of r, with a register_class call of it raising
RegisterHostRaises(r, what) ==
    /\ RegistrarPool[r].bpy_type \in RecognizedTypes
    /\ Cardinality(Orphans(Sys)) < MaxOrphans
    /\ SetSys(r, registerHostRaises(Sys, r, Coll(r), what), "register")
    /\ registered' = registered \ {r}

Unregister(r) ==
    /\ SetSys(r, unregister(Sys, r), "unregister")
    /\ registered' = registered \ {r}

\* DynamicProperties.find(bpy_type, name), for the type and name of r
Find(r) ==
    /\ r \in constructed
    /\ last' = Call("find", r, "", "", "", <<>>,
                    find(registered_properties,
                         RegistrarPool[r].bpy_type, RegistrarPool[r].name))
    /\ shown' = NothingShown
    /\ UNCHANGED <<constructed, props, meta, property_class, panel_class,
                   registered_properties, host_property_groups, host_panels,
                   registered, hist, context, inserted>>

\* the record class the group name of r is bound to on the target type:
\* the installed class of r's handle
Bound(r) == property_class[r] \in ClassIds(host_property_groups)

RecordClass(r) ==
    CHOOSE cl \in host_property_groups : cl.id = property_class[r]

PanelInstalled(r) == panel_class[r] \in ClassIds(host_panels)

\* the user selects (present) or deselects an object of the target type
SetContext(present) ==
    /\ context.present # present
    /\ context' = [context EXCEPT !.present = present]
    /\ shown' = NothingShown
    /\ UNCHANGED <<constructed, props, meta, property_class, panel_class,
                   registered_properties, host_property_groups, host_panels,
                   registered, last, hist, inserted>>

\* context.light.<name>.enabled = value
SetEnabled(r, value) ==
    /\ r \in constructed
    /\ context.present
    /\ Bound(r)
    /\ HasField(RecordClass(r), "enabled")
    /\ context' = [context EXCEPT !.values = Merge(@, [enabled |-> value])]
    /\ shown' = NothingShown
    /\ UNCHANGED <<constructed, props, meta, property_class, panel_class,
                   registered_properties, host_property_groups, host_panels,
                   registered, last, hist, inserted>>

\* the host asks the installed panel of r whether it is to be shown
Poll(r) ==
    /\ PanelInstalled(r)
    /\ Bound(r)
    /\ shown' = poll(context, RecordClass(r))
    /\ UNCHANGED <<constructed, props, meta, property_class, panel_class,
                   registered_properties, host_property_groups, host_panels,
                   registered, last, hist, context, inserted>>

\* the host draws the installed panel of r, whose poll() returned True
Draw(r) ==
    /\ PanelInstalled(r)
    /\ Bound(r)
    /\ poll(context, RecordClass(r)).ret = "True"
    /\ shown' = draw(context, RecordClass(r))
    /\ UNCHANGED <<constructed, props, meta, property_class, panel_class,
                   registered_properties, host_property_groups, host_panels,
                   registered, last, hist, context, inserted>>

\* context.light.<name>.items()
Items(r) ==
    /\ context.present
    /\ Bound(r)
    /\ shown' = items(RecordClass(r), context.values)
    /\ UNCHANGED <<constructed, props, meta, property_class, panel_class,
                   registered_properties, host_property_groups, host_panels,
                   registered, last, hist, context, inserted>>

NoCall == Call("", None, "", "", "", <<>>, None)

\* no registrar constructed, nothing installed, the table empty
Init ==
    /\ constructed = {}
    /\ props = [r \in Registrars |-> EmptyDict]
    /\ meta = [r \in Registrars |-> EmptyDict]
    /\ property_class = [r \in Registrars |-> Unset]
    /\ panel_class = [r \in Registrars |-> Unset]
    /\ registered_properties = [k \in {} |-> None]
    /\ host_property_groups = {}
    /\ host_panels = {}
    /\ registered = {}
    /\ last = NoCall
    /\ hist = HistoryOff
    /\ context = NoContext
    /\ shown = NothingShown
    /\ inserted = InsertedOff

\* the keys the registrars' collections are changed with between
\* registrations: by add_float() and remove(), which change the dicts in
\* place (clear(), which makes new dicts, is called in SpecColl and
\* SpecPanel)
RegKeys == {"f"}

Next ==
    \/ \E r \in Registrars : Construct(r, EnabledDefault)
    \/ \E r \in Registrars, key \in RegKeys, name \in Names :
           AddFloat(r, key, name, NoKwargs)
    \/ \E r \in Registrars, key \in RegKeys : Remove(r, key)
    \/ \E r \in Registrars : Register(r)
    \/ \E r \in Registrars : Unregister(r)
    \/ \E r \in Registrars : Find(r)

Spec == Init /\ [][Next]_vars

(***************************************************************************)
(* The registrars with a host whose register_class may raise.              *)
(***************************************************************************)
NextHostRaises ==
    \/ \E r \in Registrars : Construct(r, EnabledDefault)
    \/ \E r \in Registrars, key \in RegKeys, name \in Names :
           AddFloat(r, key, name, NoKwargs)
    \/ \E r \in Registrars, key \in RegKeys : Remove(r, key)
    \/ \E r \in Registrars : Register(r)
    \/ \E r \in Registrars, what \in {"property_class", "panel_class"} :
           RegisterHostRaises(r, what)
    \/ \E r \in Registrars : Unregister(r)
    \/ \E r \in Registrars : Find(r)

SpecHostRaises == Init /\ [][NextHostRaises]_vars

(***************************************************************************)
(* One collection (that of registrar 1) under every collection method.     *)
(***************************************************************************)
InitColl ==
    /\ constructed = {1}
    /\ \E enabled \in PyBool :
        /\ props = [r \in Registrars |->
                       IF r = 1 THEN NewCollection(enabled).props
                       ELSE EmptyDict]
        /\ meta = [r \in Registrars |->
                      IF r = 1 THEN NewCollection(enabled).meta
                      ELSE EmptyDict]
    /\ property_class = [r \in Registrars |-> Unset]
    /\ panel_class = [r \in Registrars |-> Unset]
    /\ registered_properties = [k \in {} |-> None]
    /\ host_property_groups = {}
    /\ host_panels = {}
    /\ registered = {}
    /\ last = NoCall
    /\ hist = HistoryOn
    /\ context = NoContext
    /\ shown = NothingShown
    /\ inserted = InsertedOff

NextColl ==
    \/ \E key \in Keys, text \in HeaderTexts : AddHeader(1, key, text)
    \/ \E key \in Keys, name \in Names, kw \in SeqRange(FloatKwargs) :
           AddFloat(1, key, name, kw)
    \/ \E key \in Keys, name \in Names, kw \in SeqRange(BoolKwargs) :
           AddBool(1, key, name, kw)
    \/ \E key \in Keys, name \in Names, kw \in SeqRange(PlainKwargs) :
           AddStr(1, key, name, kw)
    \/ \E key \in Keys, name \in Names, kw \in SeqRange(SizeKwargs) :
           AddVec2(1, key, name, kw)
    \/ \E key \in Keys, name \in Names, kw \in SeqRange(PlainKwargs) :
           AddVec3(1, key, name, kw)
    \/ \E key \in Keys, name \in Names, kw \in SeqRange(ColorKwargs) :
           AddRgb(1, key, name, kw)
    \/ \E key \in Keys, name \in Names, kw \in SeqRange(ColorKwargs) :
           AddRgba(1, key, name, kw)
    \/ \E key \in Keys, name \in Names, kw \in SeqRange(EnumKwargs) :
           AddEnum(1, key, name, kw)
    \/ \E key \in Keys, name \in Names, kw \in SeqRange(PathKwargs) :
           AddFile(1, key, name, kw)
    \/ \E key \in Keys, name \in Names, kw \in SeqRange(PlainKwargs) :
           AddDir(1, key, name, kw)
    \/ \E key \in Keys, name \in Names, d \in ImageDescriptions :
           AddImage(1, key, name, d)
    \/ \E key \in Keys : Remove(1, key)
    \/ \E enabled \in PyBool : Clear(1, enabled)
    \/ ClearDefault(1)

SpecColl == InitColl /\ [][NextColl]_vars

(***************************************************************************)
(* One registrar (registrar 1) with its panel and its record at work: the  *)
(* collection changes between registrations, the host polls and draws the  *)
(* panel, and items() is called on the record of the context object.       *)
(***************************************************************************)
\* the key of the fields and the key of the header
FieldKeys == {"f"}
HeaderKeys == {"h"}

InitPanel ==
    /\ constructed = {1}
    /\ props = [r \in Registrars |->
                   IF r = 1 THEN NewCollection(EnabledDefault).props
                   ELSE EmptyDict]
    /\ meta = [r \in Registrars |->
                  IF r = 1 THEN NewCollection(EnabledDefault).meta
                  ELSE EmptyDict]
    /\ property_class = [r \in Registrars |-> Unset]
    /\ panel_class = [r \in Registrars |-> Unset]
    /\ registered_properties = [k \in {} |-> None]
    /\ host_property_groups = {}
    /\ host_panels = {}
    /\ registered = {}
    /\ last = NoCall
    /\ hist = HistoryOff
    /\ context = NoContext
    /\ shown = NothingShown
    /\ inserted = [on |-> TRUE, keys |-> <<"enabled">>]

NextPanel ==
    \/ \E key \in FieldKeys, name \in Names :
           AddFloat(1, key, name, FloatKwargs[2])
    \/ \E key \in FieldKeys, name \in Names, d \in ImageDescriptions :
           AddImage(1, key, name, d)
    \/ \E key \in HeaderKeys, text \in HeaderTexts : AddHeader(1, key, text)
    \/ \E key \in {"enabled"} \cup FieldKeys \cup HeaderKeys : Remove(1, key)
    \/ ClearDefault(1)
    \/ Register(1)
    \/ Unregister(1)
    \/ \E present \in BOOLEAN : SetContext(present)
    \/ \E value \in PyBool : SetEnabled(1, value)
    \/ Poll(1)
    \/ Draw(1)
    \/ Items(1)

SpecPanel == InitPanel /\ [][NextPanel]_vars

(***************************************************************************)
(* Vocabulary of the properties.                                           *)
(***************************************************************************)
RType(r) == RegistrarPool[r].bpy_type

RName(r) == RegistrarPool[r].name

KeyOf(r) == get_key(RType(r), RName(r))

\* the installed classes of a (target type, group name) pair
InstalledFor(classes, bpy_type, name) ==
    {cl \in classes : cl.bpy_type = bpy_type /\ cl.name = name}

\* the installed classes registrar r created
MadeBy(classes, r) == {cl \in classes : cl.made_by = r}

\* the registration state of a method's result, without its outcome
StateOf(T) ==
    [property_class        |-> T.property_class,
     panel_class           |-> T.panel_class,
     registered_properties |-> T.registered_properties,
     host_property_groups  |-> T.host_property_groups,
     host_panels           |-> T.host_panels]

\* the keys of a dict, in order
KeySeq(d) == [i \in 1..Len(d) |-> d[i].key]

\* every add_<kind> call with every argument list of the menus
AddCalls ==
    {[op |-> "add_header", name |-> t, kw |-> NoKwargs] : t \in HeaderTexts}
    \cup {[op |-> "add_float", name |-> n, kw |-> kw] :
             n \in Names, kw \in SeqRange(FloatKwargs)}
    \cup {[op |-> "add_bool", name |-> n, kw |-> kw] :
             n \in Names, kw \in SeqRange(BoolKwargs)}
    \cup {[op |-> "add_str", name |-> n, kw |-> kw] :
             n \in Names, kw \in SeqRange(PlainKwargs)}
    \cup {[op |-> "add_vec2", name |-> n, kw |-> kw] :
             n \in Names, kw \in SeqRange(SizeKwargs)}
    \cup {[op |-> "add_vec3", name |-> n, kw |-> kw] :
             n \in Names, kw \in SeqRange(PlainKwargs)}
    \cup {[op |-> "add_rgb", name |-> n, kw |-> kw] :
             n \in Names, kw \in SeqRange(ColorKwargs)}
    \cup {[op |-> "add_rgba", name |-> n, kw |-> kw] :
             n \in Names, kw \in SeqRange(ColorKwargs)}
    \cup {[op |-> "add_enum", name |-> n, kw |-> kw] :
             n \in Names, kw \in SeqRange(EnumKwargs)}
    \cup {[op |-> "add_file", name |-> n, kw |-> kw] :
             n \in Names, kw \in SeqRange(PathKwargs)}
    \cup {[op |-> "add_dir", name |-> n, kw |-> kw] :
             n \in Names, kw \in SeqRange(PlainKwargs)}
    \cup {[op |-> "add_image", name |-> n, kw |-> [description |-> d]] :
             n \in Names, d \in ImageDescriptions}

\* the collection c after the add call `call` with `key`
Apply(c, key, call) ==
    CASE call.op = "add_header" -> add_header(c, key, call.name)
      [] call.op = "add_float"  -> add_float(c, key, call.name, call.kw)
      [] call.op = "add_bool"   -> add_bool(c, key, call.name, call.kw)
      [] call.op = "add_str"    -> add_str(c, key, call.name, call.kw)
      [] call.op = "add_vec2"   -> add_vec2(c, key, call.name, call.kw)
      [] call.op = "add_vec3"   -> add_vec3(c, key, call.name, call.kw)
      [] call.op = "add_rgb"    -> add_rgb(c, key, call.name, call.kw)
      [] call.op = "add_rgba"   -> add_rgba(c, key, call.name, call.kw)
      [] call.op = "add_enum"   -> add_enum(c, key, call.name, call.kw)
      [] call.op = "add_file"   -> add_file(c, key, call.name, call.kw)
      [] call.op = "add_dir"    -> add_dir(c, key, call.name, call.kw)
      [] call.op = "add_image"  ->
             add_image(c, key, call.name, call.kw.description)

\* the kind an add call declares
KindOf(op) ==
    CASE op = "add_header" -> "header"
      [] op = "add_float"  -> "float"
      [] op = "add_bool"   -> "bool"
      [] op = "add_str"    -> "str"
      [] op = "add_vec2"   -> "vec2"
      [] op = "add_vec3"   -> "vec3"
      [] op = "add_rgb"    -> "rgb"
      [] op = "add_rgba"   -> "rgba"
      [] op = "add_enum"   -> "enum"
      [] op = "add_file"   -> "file"
      [] op = "add_dir"    -> "dir"
      [] op = "add_image"  -> "image"

\* the keys the round trip of C8 is tried with: those of the menus and one
\* no collection ever holds
RoundTripKeys == Keys \cup {"other"}

(***************************************************************************)
(* C1.  With a single registrar, once register() has returned and no       *)
(* unregister() followed, the host holds exactly one PropertyGroup class   *)
(* and exactly one Panel class, those the registrar's handles name, made   *)
(* for its (type, name) by the registrar (right after register(): from the *)
(* collection as it is), and the table holds exactly the entry of the      *)
(* registrar.                                                              *)
(***************************************************************************)
C1_OneInstallation ==
    \A r \in Registrars :
        (constructed = {r} /\ r \in registered) =>
            /\ Cardinality(host_property_groups) = 1
            /\ Cardinality(host_panels) = 1
            /\ \A cl \in host_property_groups :
                   /\ cl.id = property_class[r]
                   /\ cl.made_by = r
                   /\ cl.bpy_type = RType(r)
                   /\ cl.name = RName(r)
                   /\ (last.op = "register" => cl.annotations = props[r])
            /\ \A cl \in host_panels :
                   /\ cl.id = panel_class[r]
                   /\ cl.made_by = r
                   /\ cl.bpy_type = RType(r)
                   /\ cl.name = RName(r)
            /\ DOMAIN registered_properties = {KeyOf(r)}
            /\ registered_properties[KeyOf(r)] = r

\* registrar 1, alone, has registered again after add_float("f"): its
\* classes are not those of its first register()
C1_Witness ==
    /\ constructed = {1}
    /\ 1 \in registered
    /\ last.op = "register"
    /\ "f" \in DictKeys(props[1])
    /\ property_class[1] # 1

(***************************************************************************)
(* C2.  Every (target type, group name) pair has at most one installed     *)
(* PropertyGroup class and at most one installed Panel class, whatever     *)
(* registrars were registered and unregistered.                            *)
(***************************************************************************)
C2_AtMostOnePerPair ==
    \A r \in Registrars :
        /\ Cardinality(InstalledFor(host_property_groups,
                                    RType(r), RName(r))) <= 1
        /\ Cardinality(InstalledFor(host_panels, RType(r), RName(r))) <= 1

(***************************************************************************)
(* C3.  Right after register() of r returned, find(r.bpy_type, r.name) is  *)
(* r; right after r.unregister(), it is None.                              *)
(***************************************************************************)
C3_FindFollowsRegistration ==
    /\ (last.op = "register" /\ last.exc = "") =>
           find(registered_properties, RType(last.reg), RName(last.reg))
               = last.reg
    /\ last.op = "unregister" =>
           find(registered_properties, RType(last.reg), RName(last.reg))
               = None

\* an unregister() that removed an installed class: the registrar had been
\* registered, and is not found any more
C3_Witness ==
    /\ last.op = "unregister"
    /\ last.calls # <<>>
    /\ last.calls[1].ok
    /\ find(registered_properties, RType(last.reg), RName(last.reg)) = None

(***************************************************************************)
(* C4.  register() of a registrar whose target type is not recognized      *)
(* raises TypeError, calls the host not at all and changes neither the     *)
(* table, nor any handle, nor what the host has installed.                 *)
(***************************************************************************)
C4_UnrecognizedTypeRaises ==
    [][(last'.op = "register" /\ RType(last'.reg) \notin RecognizedTypes) =>
           /\ last'.exc = "TypeError"
           /\ last'.calls = <<>>
           /\ UNCHANGED <<registered_properties, property_class, panel_class,
                          host_property_groups, host_panels>>]_vars

\* the TypeError was raised while another registrar was registered
C4_Witness ==
    /\ last.op = "register"
    /\ last.exc = "TypeError"
    /\ DOMAIN registered_properties # {}
    /\ host_panels # {}

(***************************************************************************)
(* C5.  unregister() never raises; after it, the host holds no class the   *)
(* registrar made, its handles are None and the table has no entry for its *)
(* key; from every state, a second unregister() changes nothing the first  *)
(* left.                                                                   *)
(***************************************************************************)
C5_UnregisterIdempotent ==
    /\ \A r \in constructed :
           /\ unregister(Sys, r).exc = ""
           /\ StateOf(unregister(unregister(Sys, r), r))
                  = StateOf(unregister(Sys, r))
    /\ last.op = "unregister" =>
           /\ last.exc = ""
           /\ property_class[last.reg] = None
           /\ panel_class[last.reg] = None
           /\ KeyOf(last.reg) \notin DOMAIN registered_properties
           /\ MadeBy(host_property_groups, last.reg) = {}
           /\ MadeBy(host_panels, last.reg) = {}

\* an unregister() of a registrar that was unregistered already: both host
\* calls raised, and were swallowed
C5_Witness ==
    /\ last.op = "unregister"
    /\ last.exc = ""
    /\ Len(last.calls) = 2
    /\ ~last.calls[1].ok
    /\ ~last.calls[2].ok

(***************************************************************************)
(* C6.  register() and unregister() of registrar a leave alone every       *)
(* registrar b of the same target type and another group name: b's table   *)
(* key is another key, its entry, its handles and the installed classes of *)
(* its (type, name) stay as they were, and a register() that returns has   *)
(* put a's own entry in the table.                                         *)
(***************************************************************************)
C6_OtherGroupUntouched ==
    [][\A a \in Registrars, b \in Registrars :
           ( /\ last'.op \in {"register", "unregister"}
             /\ last'.reg = a
             /\ RType(a) = RType(b)
             /\ RName(a) # RName(b) ) =>
               /\ KeyOf(a) # KeyOf(b)
               /\ (KeyOf(b) \in DOMAIN registered_properties')
                      = (KeyOf(b) \in DOMAIN registered_properties)
               /\ KeyOf(b) \in DOMAIN registered_properties =>
                      registered_properties'[KeyOf(b)]
                          = registered_properties[KeyOf(b)]
               /\ property_class'[b] = property_class[b]
               /\ panel_class'[b] = panel_class[b]
               /\ InstalledFor(host_property_groups', RType(b), RName(b))
                      = InstalledFor(host_property_groups, RType(b), RName(b))
               /\ InstalledFor(host_panels', RType(b), RName(b))
                      = InstalledFor(host_panels, RType(b), RName(b))
               /\ (last'.op = "register" /\ last'.exc = "") =>
                      /\ KeyOf(a) \in DOMAIN registered_properties'
                      /\ registered_properties'[KeyOf(a)] = a]_vars

\* "g" of Light was registered and has been unregistered while "Probeg" of
\* Light is registered: "Probeg" is still found and installed
C6_Witness ==
    /\ last.op = "unregister"
    /\ last.reg = 1
    /\ last.calls # <<>>
    /\ last.calls[1].ok
    /\ 2 \in registered
    /\ find(registered_properties, RType(2), RName(2)) = 2
    /\ MadeBy(host_property_groups, 2) # {}
    /\ MadeBy(host_panels, 2) # {}

(***************************************************************************)
(* C7.  Right after clear(d), props and meta each have the single key      *)
(* "enabled", a BoolProperty of kind bool whose default is d, and "True"   *)
(* when clear() was called without argument.                               *)
(***************************************************************************)
C7_ClearLeavesEnabled ==
    last.op = "clear" =>
        /\ KeySeq(props[last.reg]) = <<"enabled">>
        /\ KeySeq(meta[last.reg]) = <<"enabled">>
        /\ props[last.reg][1].val.ctor = "BoolProperty"
        /\ props[last.reg][1].val.args.default
               = (IF last.arg = "" THEN "True" ELSE last.arg)
        /\ meta[last.reg][1].val[1] = "bool"

\* clear(False) of a collection that an add_float("f") had just extended
C7_Witness ==
    /\ last.op = "clear"
    /\ last.arg = "False"
    /\ hist.prev_op = "add_float"
    /\ hist.prev_key = "f"
    /\ KeySeq(meta[1]) = <<"enabled">>

(***************************************************************************)
(* C8, as claimed.  For every key, add_<kind>(key, ...) then remove(key)   *)
(* gives back the collection as it was, and "enabled" is in it.            *)
(***************************************************************************)
C8_RoundTripEveryKey ==
    \A key \in RoundTripKeys, call \in AddCalls :
        LET after == remove(Apply(Coll(1), key, call), key)
        IN  /\ after = Coll(1)
            /\ "enabled" \in DictKeys(after.meta)

(***************************************************************************)
(* C8, amended.  For every key the collection does not have,               *)
(* add_<kind>(key, ...) then remove(key) gives back the collection as it   *)
(* was (props and meta, in their order), so that "enabled" is in it        *)
(* exactly when it was before.                                             *)
(***************************************************************************)
C8_RoundTripNewKey ==
    \A key \in RoundTripKeys, call \in AddCalls :
        key \notin DictKeys(meta[1]) =>
            LET after == remove(Apply(Coll(1), key, call), key)
            IN  /\ after = Coll(1)
                /\ ("enabled" \in DictKeys(after.meta))
                       = ("enabled" \in DictKeys(meta[1]))

\* remove("f") right after an add_vec2("f") that found no "f"
C8_Witness ==
    /\ last.op = "remove"
    /\ last.key = "f"
    /\ hist.prev_op = "add_vec2"
    /\ hist.prev_key = "f"
    /\ hist.prev_had = "False"
    /\ "f" \notin DictKeys(meta[1])
    /\ "enabled" \in DictKeys(meta[1])

(***************************************************************************)
(* C9.  An add_<kind> with a key the collection has leaves the number and  *)
(* the order of the keys of meta as they were, makes the call's kind and   *)
(* name the descriptor of the key, keeps the key single in meta and props, *)
(* and changes nothing when it is repeated.                                *)
(***************************************************************************)
C9_AddOverwrites ==
    \A key \in DictKeys(meta[1]), call \in AddCalls :
        LET after == Apply(Coll(1), key, call)
        IN  /\ Len(after.meta) = Len(meta[1])
            /\ KeySeq(after.meta) = KeySeq(meta[1])
            /\ DictGet(after.meta, key)[1] = KindOf(call.op)
            /\ DictGet(after.meta, key)[2] = call.name
            /\ Cardinality({i \in 1..Len(after.meta) :
                               after.meta[i].key = key}) = 1
            /\ Cardinality({i \in 1..Len(after.props) :
                               after.props[i].key = key}) <= 1
            /\ Apply(after, key, call) = after

\* add_bool("f") of a collection that had "f": "f" is a bool, once
C9_Witness ==
    /\ last.op = "add_bool"
    /\ last.key = "f"
    /\ hist.had = "True"
    /\ DictGet(meta[1], "f")[1] = "bool"
    /\ DictGet(props[1], "f").ctor = "BoolProperty"
    /\ Len(meta[1]) = 2

(***************************************************************************)
(* C10.  The collection always has the key "enabled", and its kind is      *)
(* bool.                                                                   *)
(***************************************************************************)
C10_EnabledAlwaysBool ==
    /\ "enabled" \in DictKeys(meta[1])
    /\ DictGet(meta[1], "enabled")[1] = "bool"

(***************************************************************************)
(* C11.  Whatever the caller passes for min, max, subtype and size, the    *)
(* constructor add_rgb and add_rgba record for the key is a                *)
(* FloatVectorProperty with min 0.0, max 1.0, subtype COLOR and size 3     *)
(* (add_rgb) or 4 (add_rgba): for every call of the menus from the         *)
(* collection as it is, and in the collection right after such a call.     *)
(***************************************************************************)
ColorArgs(size) ==
    [min |-> "0.0", max |-> "1.0", subtype |-> "COLOR", size |-> size]

\* the constructor p is a colour of `size` components in [0, 1]
IsColor(p, size) ==
    /\ p.ctor = "FloatVectorProperty"
    /\ \A o \in DOMAIN ColorArgs(size) :
           o \in DOMAIN p.args /\ p.args[o] = ColorArgs(size)[o]

C11_ColorsForced ==
    /\ \A key \in Keys, name \in Names, kw \in SeqRange(ColorKwargs) :
           /\ IsColor(DictGet(add_rgb(Coll(1), key, name, kw).props, key), "3")
           /\ IsColor(DictGet(add_rgba(Coll(1), key, name, kw).props, key),
                      "4")
    /\ last.op = "add_rgb" => IsColor(DictGet(props[1], last.key), "3")
    /\ last.op = "add_rgba" => IsColor(DictGet(props[1], last.key), "4")

\* right after add_rgba("f", ..., description='Diffuse color', min=-1.0,
\* max=2.0, subtype='NONE'): the description is the caller's, the range
\* and the subtype are not
C11_Witness ==
    /\ last.op = "add_rgba"
    /\ last.key = "f"
    /\ GetDescription(DictGet(props[1], "f").args) = "Diffuse color"
    /\ DictGet(props[1], "f").args.min = "0.0"
    /\ DictGet(props[1], "f").args.subtype = "COLOR"

(***************************************************************************)
(* C12.  items() on the record of the context object returns, without      *)
(* raising, exactly one entry per key of the record class's meta that is   *)
(* not "enabled" and whose kind is not header, in the order of meta, each  *)
(* with the kind meta declares for the key and the current value of the    *)
(* field.                                                                  *)
(***************************************************************************)
\* the keys of meta items() is to list
ListedKeys(m) ==
    {k \in DictKeys(m) : k # "enabled" /\ DictGet(m, k)[1] # "header"}

C12_ItemsOnePerField ==
    shown.op = "items" =>
        /\ shown.exc = ""
        /\ {shown.rows[i].key : i \in 1..Len(shown.rows)}
               = ListedKeys(RecordClass(1).meta)
        /\ Len(shown.rows) = Cardinality(ListedKeys(RecordClass(1).meta))
        /\ \A i \in 1..Len(shown.rows) :
               shown.rows[i].val
                   = <<DictGet(RecordClass(1).meta, shown.rows[i].key)[1],
                       FieldValue(RecordClass(1), context.values,
                                  shown.rows[i].key)>>

(***************************************************************************)
(* C13.  poll() of the installed panel returns, without raising, False     *)
(* when the context has no object of the target type, and otherwise True   *)
(* exactly when the field "enabled" of the group on that object is true.   *)
(***************************************************************************)
C13_PollFollowsEnabled ==
    shown.op = "poll" =>
        /\ shown.exc = ""
        /\ shown.ret \in PyBool
        /\ ~context.present => shown.ret = "False"
        /\ context.present =>
               (shown.ret = "True")
                   = (FieldValue(RecordClass(1), context.values, "enabled")
                          = "True")

(***************************************************************************)
(* C14.  Every constructed registrar is in exactly one of two states:      *)
(* unregistered (no record handle, no panel handle, no table entry for its *)
(* key) or registered (both handles are classes installed in the host, and *)
(* the table entry of its key is the registrar); register() leaves the     *)
(* registrar registered and unregister() leaves it unregistered.           *)
(***************************************************************************)
IsUnregistered(r) ==
    /\ property_class[r] \in {Unset, None}
    /\ panel_class[r] \in {Unset, None}
    /\ KeyOf(r) \notin DOMAIN registered_properties

IsRegistered(r) ==
    /\ property_class[r] \in ClassIds(host_property_groups)
    /\ panel_class[r] \in ClassIds(host_panels)
    /\ KeyOf(r) \in DOMAIN registered_properties
    /\ registered_properties[KeyOf(r)] = r

C14_TwoStates ==
    /\ \A r \in constructed : IsUnregistered(r) # IsRegistered(r)
    /\ last.op = "register" => IsRegistered(last.reg)
    /\ last.op = "unregister" => IsUnregistered(last.reg)

(***************************************************************************)
(* C15.  A register() that passes the type check goes, in this order,      *)
(* through: the previous record class leaves the host, the previous panel  *)
(* class leaves the host and the table entry of the key is removed, the    *)
(* new record class enters the host, the new panel class enters the host,  *)
(* the table entry of the key is set to the registrar; it ends in the      *)
(* state register() returns with; and in no state on the way the host has  *)
(* a class of the pair (target type, group name) installed before the call *)
(* together with a class of the pair the call installs.                    *)
(***************************************************************************)
\* the classes of the pair of r installed in the state T
PairClasses(T, r) ==
    InstalledFor(T.host_property_groups, RType(r), RName(r))
        \cup InstalledFor(T.host_panels, RType(r), RName(r))

\* the states t of a register() of r change in the claimed order: t[2]
\* follows the host's unregistering of the previous record class, t[3]
\* that of the previous panel class, t[4] the removal of the table entry,
\* t[6] the host's registering of the new record class, t[7] that of the
\* new panel class, and t[9] the setting of the table entry
StepsInOrder(t, r) ==
    LET old == t[1]
        new == t[Len(t)]
    IN  /\ Len(t) = 9
        /\ \A i \in 1..Len(t) :
               /\ old.property_class[r]
                      \in ClassIds(t[i].host_property_groups) => i = 1
               /\ old.panel_class[r] \in ClassIds(old.host_panels) =>
                      (old.panel_class[r] \in ClassIds(t[i].host_panels))
                          = (i <= 2)
               /\ KeyOf(r) \in DOMAIN old.registered_properties =>
                      (KeyOf(r) \in DOMAIN t[i].registered_properties)
                          = (i <= 3 \/ i = 9)
               /\ (new.property_class[r]
                       \in ClassIds(t[i].host_property_groups)) = (i >= 6)
               /\ (new.panel_class[r] \in ClassIds(t[i].host_panels))
                      = (i >= 7)
               /\ i \in 4..8 =>
                      KeyOf(r) \notin DOMAIN t[i].registered_properties
        /\ find(new.registered_properties, RType(r), RName(r)) = r

C15_OrderedNeverBoth ==
    \A r \in constructed :
        RType(r) \in RecognizedTypes =>
            LET t == RegisterSteps(Sys, r, Coll(r))
            IN  /\ t[Len(t)] = StateOf(register(Sys, r, Coll(r)))
                /\ StepsInOrder(t, r)
                /\ \A i \in 1..Len(t) :
                       \/ PairClasses(t[i], r) \cap PairClasses(t[1], r) = {}
                       \/ PairClasses(t[i], r) \subseteq PairClasses(t[1], r)

(***************************************************************************)
(* C16.  Whatever was called, and also when a register_class call inside   *)
(* register() raised, every class installed in the host is the record      *)
(* handle or the panel handle of some registrar.                           *)
(***************************************************************************)
C16_NoOrphan == Orphans(Sys) = {}

(***************************************************************************)
(* C17.  In every state of the collection, the keys of props are the keys  *)
(* of meta whose kind is not header: a header key has no constructor, and  *)
(* every other key has one.                                                *)
(***************************************************************************)
C17_PropsAreNonHeaders ==
    DictKeys(props[1])
        = {k \in DictKeys(meta[1]) : DictGet(meta[1], k)[1] # "header"}

(***************************************************************************)
(* C18.  While the record class of the registrar is installed, the meta    *)
(* the class carries (what draw() and items() read) describes exactly the  *)
(* fields the class was registered with: its keys whose kind is not header *)
(* are the keys of the fields, whatever add, remove or clear call was made *)
(* on the collection since register().                                     *)
(***************************************************************************)
C18_InstalledMetaFixed ==
    Bound(1) =>
        {k \in DictKeys(RecordClass(1).meta) :
            DictGet(RecordClass(1).meta, k)[1] # "header"}
            = DictKeys(RecordClass(1).annotations)

(***************************************************************************)
(* Vocabulary of C19: the rows of a drawn panel.                           *)
(***************************************************************************)
\* the call that makes the row of the entry e of meta: the label of a
\* header, the image editor of an image, the standard editor of any other
RowOf(e) ==
    CASE e.val[1] = "header" -> UICall("label", "", e.val[2], "", "")
      [] e.val[1] = "image"  ->
             UICall("template_ID", e.key, e.val[2], "image.new", "image.open")
      [] OTHER -> UICall("prop", e.key, "", "", "")

\* the calls of a drawn panel that make a row
Rows(calls) ==
    SelectSeq(calls, LAMBDA c : c.fn \in {"label", "template_ID", "prop"})

\* the keys of `order` that meta m has, "enabled" left out
RowKeys(order, m) ==
    SelectSeq(order, LAMBDA k : k # "enabled" /\ k \in DictKeys(m))

\* one row per entry of m other than "enabled", the keys taken in `order`
RowsInOrder(order, m) ==
    [i \in 1..Len(RowKeys(order, m)) |->
        RowOf([key |-> RowKeys(order, m)[i],
               val |-> DictGet(m, RowKeys(order, m)[i])])]

\* the number of calls of fn among `calls`
CountCalls(calls, fn) == Cardinality({i \in 1..Len(calls) : calls[i].fn = fn})

\* the number of entries of m other than "enabled" with a kind in `kinds`
CountKinds(m, kinds) ==
    Cardinality({i \in 1..Len(m) :
                    m[i].key # "enabled" /\ m[i].val[1] \in kinds})

(***************************************************************************)
(* C19, as claimed.  draw() of a panel whose class reads the collection's  *)
(* own meta emits one row per entry of meta other than "enabled", in the   *)
(* order in which the keys were first inserted into the collection.        *)
(***************************************************************************)
C19_RowsInFirstInsertionOrder ==
    (shown.op = "draw" /\ RecordClass(1).meta_is_self) =>
        /\ shown.exc = ""
        /\ Rows(shown.rows) = RowsInOrder(inserted.keys, RecordClass(1).meta)

(***************************************************************************)
(* C19, amended.  draw() emits exactly one row per entry of the meta the   *)
(* record class carries, "enabled" left out, in the order of that dict (a  *)
(* key that is overwritten keeps its place, a key that is removed and      *)
(* added again goes last): the label of the header text in a box after a   *)
(* separator for a header, template_ID with image.new and image.open after *)
(* a separator for an image, prop for any other kind; no call names        *)
(* "enabled".                                                              *)
(***************************************************************************)
C19_RowsInMetaOrder ==
    shown.op = "draw" =>
        /\ shown.exc = ""
        /\ Rows(shown.rows)
               = RowsInOrder(KeySeq(RecordClass(1).meta), RecordClass(1).meta)
        /\ Len(Rows(shown.rows))
               = Len(SelectSeq(RecordClass(1).meta,
                               LAMBDA e : e.key # "enabled"))
        /\ \A i \in 1..Len(shown.rows) : shown.rows[i].key # "enabled"
        /\ CountCalls(shown.rows, "box")
               = CountKinds(RecordClass(1).meta, {"header"})
        /\ CountCalls(shown.rows, "separator")
               = CountKinds(RecordClass(1).meta, {"header", "image"})
        /\ Len(shown.rows)
               = Len(Rows(shown.rows)) + CountCalls(shown.rows, "box")
                     + CountCalls(shown.rows, "separator")

\* a drawn panel with the header "h" before the image "f", "f" having been
\* inserted first, removed and added again
C19_Witness ==
    /\ shown.op = "draw"
    /\ inserted.keys = <<"enabled", "f", "h">>
    /\ KeySeq(RecordClass(1).meta) = <<"enabled", "h", "f">>
    /\ Len(Rows(shown.rows)) = 2
    /\ Rows(shown.rows)[1].fn = "label"
    /\ Rows(shown.rows)[2].fn = "template_ID"

(***************************************************************************)
(* Vocabulary of C20: the add methods that take options, and the options   *)
(* each of them fixes.                                                     *)
(***************************************************************************)
OptionCalls == {call \in AddCalls : call.op \notin {"add_header", "add_image"}}

KindDefaults(op, name) ==
    CASE op \in {"add_float", "add_bool", "add_str", "add_enum"} ->
             [name |-> name]
      [] op = "add_vec2" -> [size |-> "2", name |-> name]
      [] op = "add_vec3" -> [size |-> "3", name |-> name]
      [] op = "add_rgb"  ->
             [size |-> "3", name |-> name, subtype |-> "COLOR",
              min |-> "0.0", max |-> "1.0"]
      [] op = "add_rgba" ->
             [size |-> "4", name |-> name, subtype |-> "COLOR",
              min |-> "0.0", max |-> "1.0"]
      [] op = "add_file" -> [name |-> name, subtype |-> "FILE_PATH"]
      [] op = "add_dir"  -> [name |-> name, subtype |-> "DIR_PATH"]

\* the options the claim lets no caller override
ColorOnly(op) ==
    IF op \in {"add_rgb", "add_rgba"} THEN {"subtype", "min", "max"} ELSE {}

(***************************************************************************)
(* C20, as claimed.  The options of the constructor an add method records  *)
(* are those of the caller and those the kind fixes, the caller's option   *)
(* winning on a shared name, but for subtype, min and max of add_rgb and   *)
(* add_rgba.                                                               *)
(***************************************************************************)
C20_CallerWins ==
    \A key \in Keys, call \in OptionCalls :
        LET args == DictGet(Apply(Coll(1), key, call).props, key).args
        IN  /\ DOMAIN args
                   = (DOMAIN call.kw)
                         \cup (DOMAIN KindDefaults(call.op, call.name))
            /\ \A o \in (DOMAIN call.kw) \ ColorOnly(call.op) :
                   args[o] = call.kw[o]
            /\ \A o \in ColorOnly(call.op) :
                   args[o] = KindDefaults(call.op, call.name)[o]

(***************************************************************************)
(* C20, amended.  The options of the constructor an add method records     *)
(* are those of the caller and those the kind fixes, the kind's option     *)
(* winning on a shared name, for every kind: the caller's size, subtype,   *)
(* min or max never replaces the one the kind fixes, and every other       *)
(* option of the caller is passed on as it is.                             *)
(***************************************************************************)
C20_KindWins ==
    /\ \A key \in Keys, call \in OptionCalls :
           LET args == DictGet(Apply(Coll(1), key, call).props, key).args
               fixed == KindDefaults(call.op, call.name)
           IN  /\ DOMAIN args = (DOMAIN call.kw) \cup (DOMAIN fixed)
               /\ \A o \in DOMAIN fixed : args[o] = fixed[o]
               /\ \A o \in (DOMAIN call.kw) \ (DOMAIN fixed) :
                      args[o] = call.kw[o]
    /\ (last.op \in {call.op : call \in OptionCalls}) =>
           \A o \in DOMAIN KindDefaults(last.op, last.arg) :
               DictGet(props[1], last.key).args[o]
                   = KindDefaults(last.op, last.arg)[o]

\* right after add_file("f", ..., description='Some file to load',
\* subtype='NONE'): the description is the caller's, the subtype is not
C20_Witness ==
    /\ last.op = "add_file"
    /\ last.key = "f"
    /\ GetDescription(DictGet(props[1], "f").args) = "Some file to load"
    /\ DictGet(props[1], "f").args.subtype = "FILE_PATH"

(***************************************************************************)
(* C21.  For every (target type, group name) of which no registrar is      *)
(* registered, find() is None, and a find() of such a pair returned None   *)
(* without raising; pairs that differ have different table keys.           *)
(***************************************************************************)
\* no registered registrar has the type and the name of r
PairUnregistered(r) ==
    \A q \in registered : RType(q) # RType(r) \/ RName(q) # RName(r)

C21_FindNoneWhenUnregistered ==
    /\ \A r \in Registrars :
           PairUnregistered(r) =>
               find(registered_properties, RType(r), RName(r)) = None
    /\ (last.op = "find" /\ PairUnregistered(last.reg)) =>
           last.exc = "" /\ last.ret = None
    /\ \A a \in Registrars, b \in Registrars :
           (RType(a) # RType(b) \/ RName(a) # RName(b)) => KeyOf(a) # KeyOf(b)

(***************************************************************************)
(* C22.  unregister() of a registrar removes no table entry but its own:   *)
(* every entry that maps to another registrar is there after the call,     *)
(* mapping to the same registrar, so that this registrar is found as       *)
(* before.                                                                 *)
(***************************************************************************)
C22_UnregisterRemovesOwnEntryOnly ==
    [][last'.op = "unregister" =>
           \A k \in DOMAIN registered_properties :
               registered_properties[k] # last'.reg =>
                   /\ k \in DOMAIN registered_properties'
                   /\ registered_properties'[k] = registered_properties[k]]_vars

====
